---- MODULE Spec2Model ----
(***************************************************************************)
(* Model of SQLiteDataGenerator (lib/SQLiteDataGenerator.js): generate(),  *)
(* #createTable, #insertExampleData, #forCount, #eachRow,                  *)
(* #resolveVariables, #mapFieldsToValues and #executeQuery, run on the     *)
(* single JavaScript event loop against one sqlite3 connection.            *)
(***************************************************************************)
EXTENDS Integers, Sequences, FiniteSets, TLC

(* ---------------------------------------------------------------- bounds *)
MaxTables == 2      \* length of the list handed to generate()
MaxRows == 2        \* most rows the count-mode tables of a list ask for under one name
MaxVersions == 3    \* most rows a table of versions asks for

(* ----------------------------------------------------- input configuration *)
\* names a TableSpec may carry, and the relation an earlier generate() call
\* on the same connection left behind
Names == {"t1", "t2"}
Prior == "t0"

\* an absent definition map (the default parameter `variables = {}`)
NoVars == << >>
\* a definition map: two producers around one non-function entry
SomeVars == << [key |-> "x", fn |-> TRUE], [key |-> "c", fn |-> FALSE],
               [key |-> "y", fn |-> TRUE] >>
VarOpts == {NoVars, SomeVars}

\* the fields of a TableSpec: a static field, two generated fields and a
\* nameless constraint entry (cf. config/tables.js)
Fields == << [name |-> "id", gen |-> FALSE, type |-> "INTEGER"],
             [name |-> "a",  gen |-> TRUE,  type |-> "TEXT"],
             [name |-> "b",  gen |-> TRUE,  type |-> "INTEGER"],
             [name |-> "",   gen |-> FALSE, type |-> "FOREIGN KEY"] >>

\* `rows` is a number (count mode) or an object {sourceTable, filter}. The
\* generator of field b may be a referential one (`ref` names the relation it
\* asks a random row of, `refFilter` the filter it passes; "" when it is not)
Filters == {"", "a > 1"}
CountSpecs ==
  [name : Names, mode : {"count"}, rows : 0..MaxRows, sourceTable : {Prior},
   filter : {""}, vars : VarOpts, rowVars : VarOpts, ref : {""}, refFilter : {""},
   versioned : {FALSE}]
MirrorSpecs ==
  [name : Names, mode : {"mirror"}, rows : {0}, sourceTable : Names \cup {Prior},
   filter : Filters, vars : VarOpts, rowVars : VarOpts, ref : {""}, refFilter : {""},
   versioned : {FALSE}]
TableSpecs == CountSpecs \cup { s \in MirrorSpecs : s.sourceTable # s.name }

\* rows the count-mode tables of list l ask for under name n
RECURSIVE RowsAsked(_, _, _)
RowsAsked(l, n, j) ==
  IF j = 0 THEN 0
  ELSE RowsAsked(l, n, j - 1)
         + (IF l[j].name = n /\ l[j].mode = "count" THEN l[j].rows ELSE 0)

\* the lists generate() is called with: the first table is named "t1", the
\* tables of one list share their vars and rowVars, either both absent or both
\* present, no relation is asked for more than MaxRows rows, and one table
\* at most is in mirror mode
TableLists ==
  { l \in UNION { [1..n -> TableSpecs] : n \in 1..MaxTables } :
      /\ l[1].name = "t1"
      /\ \A j, k \in DOMAIN l : l[j].mode = "mirror" /\ l[k].mode = "mirror" => j = k
      /\ \A j \in DOMAIN l : l[j].vars = l[1].vars /\ l[j].rowVars = l[1].vars
      /\ \A n \in Names : RowsAsked(l, n, Len(l)) <= MaxRows }

\* list l with the generator of field b of every table written as
\* `async () => (await db.getRandomRowFromTable(ref, refFilter)).id`
\* (cf. posts.author_id of config/tables.js)
RefLists(l) ==
  { [j \in DOMAIN l |-> [l[j] EXCEPT !.ref = r[j], !.refFilter = g]] :
      r \in [DOMAIN l -> Names \cup {Prior}], g \in Filters }

\* a list of one table written as post_versions of config/tables.js: rowVars
\* x is `(await db.getRandomRowFromTable(ref)).id`, field a returns
\* variables.row.x, and field b returns the version after the latest one that
\* db.getRowFromTable(name, `a = ${variables.row.x}`, "b DESC") finds, or 1
VersionLists ==
  { << [name |-> "t1", mode |-> "count", rows |-> r, sourceTable |-> Prior,
        filter |-> "", vars |-> SomeVars, rowVars |-> SomeVars, ref |-> Prior,
        refFilter |-> "", versioned |-> TRUE] >> : r \in 0..MaxVersions }

(* ------------------------------------------------------------------ state *)
VARIABLES
  tables,      \* the list handed to generate()
  ti,          \* index of the table the `for (const table of tables)` loop is at
  pc,          \* where generate() is suspended, or how its promise settled
  error,       \* the error generate() rejected with
  uncaught,    \* an exception was thrown out of a db.each callback
  vi,          \* position of #resolveVariables in Object.keys(variables)
  acc,         \* functionResults of the #resolveVariables call in progress
  variables,   \* the `variables` object of #insertExampleData
  i,           \* loop counter of #forCount
  rowTasks,    \* per row of the current table: its generators and its insert
  scanPos,     \* rows of the source table db.each has stepped over
  scan,        \* state of the db.each call of #eachRow
  store,       \* the rows committed to each relation
  exists,      \* the relations present in sqlite_master
  created,     \* per list index: schema creation was issued
  varCalls,    \* per list index and key: invocations of the vars producer
  rowVarCalls, \* per list index and key: invocations of the rowVars producer
  inserted,    \* per list index: inserts completed
  expected,    \* per list index: source rows matching filter when db.each was issued
  failedAt,    \* list index at which the first step failed, 0 if none
  failures,    \* steps that failed so far
  thrown,      \* the producer that threw: its scope and its key
  answer,      \* the last direct call of a lookup method and how it settled
  returned,    \* what the generator of each field returned for the row mapped
  rowValues    \* the rowValues #mapFieldsToValues resolved for that row

vars == << tables, ti, pc, error, uncaught, vi, acc, variables, i, rowTasks,
           scanPos, scan, store, exists, created, varCalls, rowVarCalls,
           inserted, expected, failedAt, failures, thrown, answer,
           returned, rowValues >>

Keys == {"x", "c", "y"}
Empty == [k \in {} |-> 0]
NoError == [kind |-> "none", table |-> "", field |-> ""]
NoThrow == [scope |-> "", key |-> ""]
Idx == 1..MaxTables

table == tables[ti]

(* -------------------------------------------------------------- helpers *)
\* fieldsWithName = table.fields.filter((field) => field.name): positions kept
fieldsWithName == SelectSeq([j \in 1..Len(Fields) |-> j], LAMBDA j : Fields[j].name # "")

\* `"${value}"` of a generated value, and the literal of a field without generator
Quoted(v) == << "quoted", v >>
NullLit == << "NULL", 0 >>

\* `a = ${n}`: the filter text built from a number
ObjectFilter(n) ==
  CASE n = 1 -> "a = 1" [] n = 2 -> "a = 2" [] n = 3 -> "a = 3"
    [] n = 4 -> "a = 4" [] OTHER -> "a = 0"

\* the WHERE clause of a query, evaluated on a committed row: column a is the
\* second named field
Matches(row, filter) ==
  IF filter = "" THEN TRUE
  ELSE IF filter = "a > 1" THEN row.vals[2][1] = "quoted" /\ row.vals[2][2] > 1
  ELSE row.vals[2][1] = "quoted" /\ filter = ObjectFilter(row.vals[2][2])

MatchCount(rows, filter) ==
  Cardinality({ n \in 1..Len(rows) : Matches(rows[n], filter) })

\* the key loop started one entry late
NextFnSkipFirst(defs, from) ==
  IF \E j \in (from + 1)..Len(defs) : defs[j].fn
    THEN CHOOSE j \in (from + 1)..Len(defs) :
           defs[j].fn /\ \A m \in (from + 1)..(j - 1) : ~defs[m].fn
    ELSE 0

\* first function-valued entry of defs at or after position from, 0 if none:
\* the `typeof variables[key] === "function"` test of #resolveVariables
NextFn(defs, from) ==
  IF \E j \in from..Len(defs) : defs[j].fn
    THEN CHOOSE j \in from..Len(defs) :
           defs[j].fn /\ \A m \in from..(j - 1) : ~defs[m].fn
    ELSE 0

\* Promise.allSettled in place of Promise.all: a thrown generator is not seen
mapFieldsAllSettled(gens) ==
  IF \E f \in DOMAIN gens : gens[f] = "running" THEN "pending" ELSE "fulfilled"

\* Promise.any in place of Promise.all: the first value fulfils the row
mapFieldsAny(gens) ==
  IF \E f \in DOMAIN gens : gens[f] = "failed" THEN "rejected"
  ELSE IF \A f \in DOMAIN gens : gens[f] = "running" THEN "pending"
  ELSE "fulfilled"

\* Promise.all over the per-field promises of #mapFieldsToValues
mapFieldsToValues(gens) ==
  IF \E f \in DOMAIN gens : gens[f] = "failed" THEN "rejected"
  ELSE IF \E f \in DOMAIN gens : gens[f] = "running" THEN "pending"
  ELSE "fulfilled"

NFW == Len(fieldsWithName)

\* `fields.map((field) => field.name)` of the INSERT statement
columns == [f \in 1..NFW |-> Fields[fieldsWithName[f]].name]
NoSeen == [hasRow |-> FALSE, row |-> Empty, tbl |-> Empty]

(* ------------------------------------------- values and their literals *)
\* the values a generator may return: numbers, a plain text, a text that
\* holds a double quote, null and undefined
JsNumber(n) == [type |-> "number", n |-> n, s |-> ""]
JsString(s) == [type |-> "string", n |-> 0, s |-> s]
JsNull == [type |-> "null", n |-> 0, s |-> ""]
JsUndefined == [type |-> "undefined", n |-> 0, s |-> ""]
Digits(n) == [type |-> "string", n |-> n, s |-> "digits"]
JsValues ==
  { JsNumber(n) : n \in 0..MaxRows }
    \cup { JsString("abc"), JsString("a\"b"), JsNull, JsUndefined }
NotReturned == [type |-> "pending", n |-> 0, s |-> ""]

\* `"${value}"`: the value converted to a string and put between double quotes
TemplateLiteral(v) ==
  [kind |-> "quoted",
   of   |-> IF v.type = "number" THEN Digits(v.n)
            ELSE IF v.type = "null" THEN JsString("null")
            ELSE IF v.type = "undefined" THEN JsString("undefined")
            ELSE v]

\* the literal "NULL" of a field without generator
NullLiteral == [kind |-> "NULL", of |-> JsNull]

\* what a column of the declared type holds for a value: INTEGER turns a text
\* of digits into the number, TEXT turns a number into its digits
Affinity(v, type) ==
  IF type = "INTEGER" /\ v.type = "string" /\ v.s = "digits" THEN JsNumber(v.n)
  ELSE IF type = "TEXT" /\ v.type = "number" THEN Digits(v.n)
  ELSE v

\* what the INSERT stores in a column of that type for an element of
\* rowValues: NULL, or the text between the double quotes; a text that holds
\* a double quote ends the literal early and the statement does not parse
Stored(lit, type) ==
  IF lit.kind = "NULL" THEN JsNull
  ELSE IF lit.of.s = "a\"b" THEN [type |-> "error", n |-> 0, s |-> ""]
  ELSE Affinity(lit.of, type)

(* ------------------------------------------------- getRandomRowFromTable *)
\* no lookup made
NoLook == [kind |-> "none", rel |-> "", id |-> 0]

\* no direct call made
NoAnswer == [asked |-> FALSE, tableName |-> "", filter |-> "", order |-> "",
             out |-> NoLook]

\* the sqlite_master query answered with a row whatever the name
tableExistsAlways(tableName) == TRUE

\* #tableExists(tableName): the relation is listed in sqlite_master
tableExists(tableName) == tableName \in exists

\* the query sent without its ORDER BY clause
FirstRowUnordered(rows, M, order) == { m \in M : \A q \in M : m <= q }

\* the rows `SELECT ... ORDER BY order` may put first among the matching
\* positions M: any under RANDOM(), one of greatest b under "b DESC" (column b
\* is the third named field), the one of least rowid without ORDER BY
FirstRow(rows, M, order) ==
  IF order = "RANDOM()" THEN M
  ELSE IF order = "b DESC"
    THEN { m \in M : \A q \in M : rows[q].vals[3][2] <= rows[m].vals[3][2] }
  ELSE { m \in M : \A q \in M : m <= q }

\* getRowFromTable(tableName, filter, order): the ways its promise settles.
\* It rejects when the relation is missing, resolves null when no row matches
\* the filter, and otherwise resolves the first row of
\* `SELECT * FROM tableName WHERE filter ORDER BY order`. The rowid of a row
\* inserted with id NULL is its position in the relation
getRowFromTable(tableName, filter, order) ==
  IF ~tableExists(tableName)
    THEN { [kind |-> "rejected", rel |-> tableName, id |-> 0] }
  ELSE LET M == { n \in 1..Len(store[tableName]) : Matches(store[tableName][n], filter) }
       IN IF M = {} THEN { [kind |-> "null", rel |-> tableName, id |-> 0] }
          ELSE { [kind |-> "row", rel |-> tableName, id |-> n] :
                   n \in FirstRow(store[tableName], M, order) }

getRandomRowFromTable(tableName, filter) ==
  getRowFromTable(tableName, filter, "RANDOM()")

\* the row a call of #mapFieldsToValues(tableName, fields, variables, rowData)
\* starts: every generator is invoked before the first await, a field without
\* generator yields "NULL"; the insert is issued once Promise.all fulfils
NewTask(src, vs) ==
  LET gens == [f \in 1..NFW |->
                 IF Fields[fieldsWithName[f]].gen THEN "running" ELSE "none"]
  IN [ src    |-> src,
       gens   |-> gens,
       vals   |-> [f \in 1..NFW |-> NullLit],
       seen   |-> [f \in 1..NFW |-> NoSeen],
       rowAt  |-> vs,
       refLen |-> IF table.ref = "" THEN 0 ELSE Len(store[table.ref]),
       look   |-> NoLook,
       failed |-> 0,
       phase  |-> IF mapFieldsToValues(gens) = "fulfilled"
                    THEN "inserting" ELSE "mapping" ]

(* ------------------------------------------------------------------- Init *)
\* the rows of the relation left behind: column a holds 1..MaxRows
PriorRows ==
  [n \in 1..MaxRows |->
     [by |-> 0, k |-> n, src |-> 0, cols |-> columns,
      vals |-> << NullLit, Quoted(n), Quoted(0) >>]]

Init ==
  /\ tables \in TableLists
  /\ ti = 1
  /\ pc = "createTable"
  /\ error = NoError
  /\ uncaught = FALSE
  /\ vi = 1
  /\ acc = Empty
  /\ variables = NoSeen
  /\ i = 0
  /\ rowTasks = << >>
  /\ scanPos = 0
  /\ scan = "idle"
  /\ store = [n \in Names \cup {Prior} |-> IF n = Prior THEN PriorRows ELSE << >>]
  /\ exists = {Prior}
  /\ created = [j \in Idx |-> FALSE]
  /\ varCalls = [j \in Idx |-> [k \in Keys |-> 0]]
  /\ rowVarCalls = [j \in Idx |-> [k \in Keys |-> 0]]
  /\ inserted = [j \in Idx |-> 0]
  /\ expected = [j \in Idx |-> 0]
  /\ failedAt = 0
  /\ failures = 0
  /\ thrown = NoThrow
  /\ answer = NoAnswer
  /\ returned = [f \in 1..NFW |-> NotReturned]
  /\ rowValues = << >>

(* ------------------------------------------------------------ generate() *)
\* generate() rejects with e
\* a step fails: the first failure of the run is at table ti
Fails ==
  /\ failures' = failures + 1
  /\ failedAt' = IF failedAt = 0 THEN ti ELSE failedAt

Reject(e) ==
  /\ Fails
  /\ pc' = "rejected"
  /\ error' = e

\* a failure that reaches no reject(): generate() stays where it is
Lost ==
  /\ Fails
  /\ UNCHANGED << pc, error >>

\* the loop moving on to #insertExampleData of the next table at once
NextTableNoCreate ==
  /\ ti' = ti + 1
  /\ pc' = IF ti + 1 > Len(tables) THEN "resolved" ELSE "vars"
  /\ rowTasks' = << >>
  /\ scan' = "idle"
  /\ scanPos' = 0
  /\ UNCHANGED << error, failedAt, failures >>

\* the `for (const table of tables)` loop moves on, or generate() resolves
NextTable ==
  /\ ti' = ti + 1
  /\ pc' = IF ti + 1 > Len(tables) THEN "resolved" ELSE "createTable"
  /\ rowTasks' = << >>
  /\ scan' = "idle"
  /\ scanPos' = 0
  /\ UNCHANGED << error, failedAt, failures >>

\* the relation dropped and created again
DropAndCreate(rows) == << >>

\* `CREATE TABLE IF NOT EXISTS`: the rows of a relation that exists stay
IfNotExists(rows) == rows

\* await this.#createTable(table): CREATE TABLE IF NOT EXISTS through #executeQuery
CreateTable ==
  /\ pc = "createTable"
  /\ created' = [created EXCEPT ![ti] = TRUE]
  /\ \/ /\ exists' = exists \cup {table.name}
        /\ store' = [store EXCEPT ![table.name] = IfNotExists(@)]
        /\ pc' = "vars"
        /\ vi' = 1
        /\ acc' = Empty
        /\ UNCHANGED << error, failedAt, failures >>
     \/ /\ Reject([kind |-> "query", table |-> "", field |-> ""])
        /\ UNCHANGED << exists, store, vi, acc >>
  /\ UNCHANGED << tables, ti, uncaught, variables, i, rowTasks, scanPos, scan,
                  varCalls, rowVarCalls, inserted, expected >>
  /\ UNCHANGED << thrown, answer, returned, rowValues >>


(* --------------------------------------------------- #resolveVariables *)
\* the error a producer's exception reaches generate() as: #resolveVariables
\* has no try/catch, the exception of `await variables[key]()` passes as thrown
ProducerError(key) == [kind |-> "raw", table |-> "", field |-> ""]

\* what the producer of rowVars entry k may return at its n-th call: the
\* producer x of a table of versions returns the id of a random row of ref (it
\* throws when there is none), every other producer returns n
RowVarReturns(k, n) ==
  IF table.versioned /\ k = "x"
    THEN { r.id : r \in { q \in getRandomRowFromTable(table.ref, "") :
                            q.kind = "row" } }
    ELSE { n }

\* functionResults[key] = await variables[key]() for table.vars: the next
\* function-valued entry is invoked; the producer is a counter that returns the
\* number of times it was called, or it throws and the error propagates as is
ResolveVar ==
  /\ pc = "vars"
  /\ NextFn(table.vars, vi) # 0
  /\ LET j == NextFn(table.vars, vi)
         k == table.vars[j].key
     IN /\ varCalls' = [varCalls EXCEPT ![ti][k] = @ + 1]
        /\ \/ /\ acc' = (k :> varCalls'[ti][k]) @@ acc
              /\ vi' = j + 1
              /\ UNCHANGED << pc, error, failedAt, failures, thrown >>
           \/ /\ Reject(ProducerError(k))
              /\ thrown' = [scope |-> "vars", key |-> k]
              /\ UNCHANGED << acc, vi >>
  /\ UNCHANGED << tables, ti, uncaught, variables, i, rowTasks, scanPos, scan,
                  store, exists, created, rowVarCalls, inserted, expected, answer,
                  returned, rowValues >>

\* the same loop for table.rowVars, called from #forCount
ResolveRowVar ==
  /\ pc = "rowVars"
  /\ NextFn(table.rowVars, vi) # 0
  /\ LET j == NextFn(table.rowVars, vi)
         k == table.rowVars[j].key
     IN /\ rowVarCalls' = [rowVarCalls EXCEPT ![ti][k] = @ + 1]
        /\ \/ /\ \E v \in RowVarReturns(k, rowVarCalls'[ti][k]) :
                   acc' = (k :> v) @@ acc
              /\ vi' = j + 1
              /\ UNCHANGED << pc, error, failedAt, failures, thrown >>
           \/ /\ Reject(ProducerError(k))
              /\ thrown' = [scope |-> "rowVars", key |-> k]
              /\ UNCHANGED << acc, vi >>
  /\ UNCHANGED << tables, ti, uncaught, variables, i, rowTasks, scanPos, scan,
                  store, exists, created, varCalls, inserted, expected, answer,
                  returned, rowValues >>

(* --------------------------------------------------- #insertExampleData *)
\* the loop test written `i <= count`
MoreRowsInclusive(n, count) == n <= count

\* the loop test `i < count` of #forCount
MoreRows(n, count) == n < count

\* the row scope resolved for the first row only and kept afterwards
RowScopeKeepFirst(vs, results) ==
  IF vs.hasRow THEN vs ELSE [vs EXCEPT !.hasRow = TRUE, !.row = results]

\* `variables = { row: ... }`: the table scope lost with the first row
RowScopeOnly(vs, results) == [hasRow |-> TRUE, row |-> results, tbl |-> Empty]

\* variables.row assigned only when a producer returned something
RowScopeIfAny(vs, results) ==
  IF results = Empty THEN vs ELSE [vs EXCEPT !.hasRow = TRUE, !.row = results]

\* `variables.row = await this.#resolveVariables(rowVariables)`
RowScope(vs, results) == [vs EXCEPT !.hasRow = TRUE, !.row = results]

\* #resolveVariables(table.vars) returned: `typeof table.rows === "object"`
\* selects #eachRow, which issues db.each; otherwise #forCount tests i < count
InsertExampleData ==
  /\ pc = "vars"
  /\ NextFn(table.vars, vi) = 0
  /\ variables' = [hasRow |-> FALSE, row |-> Empty, tbl |-> acc]
  /\ IF table.mode = "mirror"
       THEN /\ pc' = "eachRow"
            /\ scan' = "running"
            /\ scanPos' = 0
            /\ rowTasks' = << >>
            /\ expected' = [expected EXCEPT ![ti] =
                              IF table.sourceTable \in exists
                                THEN MatchCount(store[table.sourceTable], table.filter)
                                ELSE 0]
            /\ UNCHANGED << ti, i, vi, acc, error, failedAt, failures >>
       ELSE /\ i' = 0
            /\ IF MoreRows(0, table.rows)
                 THEN /\ pc' = "rowVars"
                      /\ vi' = 1
                      /\ acc' = Empty
                      /\ UNCHANGED << ti, rowTasks, scan, scanPos, error, failedAt, failures >>
                 ELSE /\ NextTable
                      /\ UNCHANGED << vi, acc >>
            /\ UNCHANGED expected
  /\ UNCHANGED << tables, uncaught, store, exists, created, varCalls,
                  rowVarCalls, inserted >>
  /\ UNCHANGED << thrown, answer, returned, rowValues >>

(* ------------------------------------------------------------ #forCount *)
\* variables.row = await #resolveVariables(rowVariables), then the call of
\* #mapFieldsToValues(tableName, fields, variables)
ForCountRow ==
  /\ pc = "rowVars"
  /\ NextFn(table.rowVars, vi) = 0
  /\ variables' = RowScope(variables, acc)
  /\ rowTasks' = Append(rowTasks, NewTask(0, variables'))
  /\ pc' = "row"
  /\ UNCHANGED << tables, ti, error, uncaught, vi, acc, i, scanPos, scan, store,
                  exists, created, varCalls, rowVarCalls, inserted, expected,
                  failedAt, failures >>
  /\ UNCHANGED << thrown, answer, returned, rowValues >>


(* --------------------------------------------------- #mapFieldsToValues *)
\* what the generator of named field f returns for the t-th row of the table:
\* field a counts its own invocations, field b returns variables.row.x
GenValue(f, t, vs) ==
  IF Fields[fieldsWithName[f]].name = "a" THEN t
  ELSE IF vs.hasRow /\ "x" \in DOMAIN vs.row THEN vs.row["x"] ELSE 0

\* the version kept as it was found
NextVersionSame(r) ==
  IF r.kind = "null" THEN 1 ELSE store[r.rel][r.id].vals[3][2]

\* `row ? row.version + 1 : 1` of the version generator
NextVersion(r) ==
  IF r.kind = "null" THEN 1 ELSE store[r.rel][r.id].vals[3][2] + 1

\* what the generator of named field f may return for the t-th row: the
\* referential generator returns `row.id` of the row its lookup resolved (it
\* throws on null and on a rejected lookup), the others return GenValue
GenReturns(f, t, vs) ==
  IF table.versioned
    THEN IF Fields[fieldsWithName[f]].name = "a"
           THEN { [val |-> vs.row["x"], look |-> NoLook] }
           ELSE { [val |-> NextVersion(r), look |-> r] :
                    r \in { q \in getRowFromTable(table.name, ObjectFilter(vs.row["x"]),
                                                   "b DESC") :
                              q.kind # "rejected" } }
  ELSE IF Fields[fieldsWithName[f]].name = "b" /\ table.ref # ""
    THEN { [val |-> r.id, look |-> r] :
             r \in { q \in getRandomRowFromTable(table.ref, table.refFilter) :
                       q.kind = "row" } }
    ELSE { [val |-> GenValue(f, t, vs), look |-> NoLook] }

\* the values collected in the order in which the generators return
PlaceAsReturned(vals, gens, f, v) ==
  LET first == CHOOSE g \in DOMAIN gens :
                 gens[g] # "none" /\ \A m \in 1..(g - 1) : gens[m] = "none"
      n == Cardinality({ g \in DOMAIN gens : gens[g] = "ok" })
  IN [vals EXCEPT ![first + n - 1] = v]

\* Promise.all keeps the position of each promise: the value of field f is the
\* f-th element of rowValues whenever its generator returns
Place(vals, gens, f, v) == [vals EXCEPT ![f] = v]

\* the generator's exception rethrown without the wrapping
FieldErrorUnwrapped(tableName, f) == [kind |-> "raw", table |-> "", field |-> ""]

\* the error #mapFieldsToValues wraps a generator's exception in
FieldError(tableName, f) ==
  [kind |-> "field", table |-> tableName, field |-> Fields[fieldsWithName[f]].name]

\* `await field.generator(variables, rowData)` of field f of row t settles. The
\* generator reads the shared `variables` object up to its completion. When the
\* last generator returns, Promise.all fulfils and the INSERT is issued; the
\* first that throws rejects Promise.all: #forCount lets the error reach
\* generate(), the async executor of #eachRow's rowPromise drops it
GenComplete(t, f) ==
  /\ rowTasks[t].gens[f] = "running"
  /\ \E ok \in BOOLEAN :
     \E ret \in (IF ok THEN GenReturns(f, t, variables)
                      ELSE { [val |-> 0, look |-> NoLook] }) :
       LET task == rowTasks[t]
           gens == [task.gens EXCEPT ![f] = IF ok THEN "ok" ELSE "failed"]
           out  == mapFieldsToValues(gens)
           first == task.phase = "mapping" /\ out = "rejected"
           t2 == [task EXCEPT
                    !.gens = gens,
                    !.seen[f] = IF ok THEN variables ELSE @,
                    !.vals = IF ok THEN Place(@, gens, f, Quoted(ret.val)) ELSE @,
                    !.look = IF ok /\ ret.look # NoLook THEN ret.look ELSE @,
                    !.failed = IF first THEN f ELSE @,
                    !.phase = IF task.phase # "mapping" THEN @
                              ELSE IF out = "fulfilled" THEN "inserting"
                              ELSE IF out = "rejected" THEN "rejected"
                              ELSE @]
       IN /\ rowTasks' = [rowTasks EXCEPT ![t] = t2]
          /\ IF ok
               THEN UNCHANGED << pc, error, failedAt, failures >>
               ELSE IF first /\ table.mode = "count"
                      THEN Reject(FieldError(table.name, f))
                      ELSE Lost
  /\ UNCHANGED << tables, ti, uncaught, vi, acc, variables, i, scanPos, scan,
                  store, exists, created, varCalls, rowVarCalls, inserted,
                  expected >>
  /\ UNCHANGED << thrown, answer, returned, rowValues >>

(* -------------------------------------------------------- #executeQuery *)
\* the INSERT written as a replacement of the relation's rows
CommitReplace(rows, r) == << r >>

\* `INSERT INTO tableName (...) VALUES (...)`: one row more in the relation
Commit(rows, r) == Append(rows, r)

\* the callback of db.run for the INSERT of row t: the row is committed, or the
\* query failed. #forCount then tests i < count again; the rowPromise of
\* #eachRow resolves, or never settles when the query failed
InsertComplete(t) ==
  /\ rowTasks[t].phase = "inserting"
  /\ \/ /\ store' = [store EXCEPT ![table.name] =
                       Commit(@, [by |-> ti, k |-> t, src |-> rowTasks[t].src,
                                  cols |-> columns, vals |-> rowTasks[t].vals])]
        /\ inserted' = [inserted EXCEPT ![ti] = @ + 1]
        /\ IF table.mode = "count"
             THEN /\ i' = i + 1
                  /\ IF MoreRows(i + 1, table.rows)
                       THEN /\ pc' = "rowVars"
                            /\ vi' = 1
                            /\ acc' = Empty
                            /\ rowTasks' = [rowTasks EXCEPT ![t].phase = "done"]
                            /\ UNCHANGED << ti, scan, scanPos, error, failedAt, failures >>
                       ELSE /\ NextTable
                            /\ UNCHANGED << vi, acc >>
             ELSE /\ rowTasks' = [rowTasks EXCEPT ![t].phase = "done"]
                  /\ UNCHANGED << ti, pc, i, vi, acc, scan, scanPos, error, failedAt, failures >>
     \/ /\ rowTasks' = [rowTasks EXCEPT ![t].phase = "insertFailed"]
        /\ IF table.mode = "count"
             THEN Reject([kind |-> "query", table |-> "", field |-> ""])
             ELSE Lost
        /\ UNCHANGED << ti, i, vi, acc, scan, scanPos, store, inserted >>
  /\ UNCHANGED << tables, uncaught, variables, exists, created, varCalls,
                  rowVarCalls, expected >>
  /\ UNCHANGED << thrown, answer, returned, rowValues >>

(* ------------------------------------------------------------- #eachRow *)
\* the scan issued without its WHERE clause
NextMatchNoFilter(rows, filter, pos) == IF pos < Len(rows) THEN pos + 1 ELSE 0

\* a scan that steps over the row after each one it delivers
NextMatchSkipping(rows, filter, pos) ==
  LET S == { n \in (pos + 2)..Len(rows) : Matches(rows[n], filter) }
  IN IF S = {} THEN 0 ELSE CHOOSE n \in S : \A m \in S : n <= m

\* position in the source table of the next row the scan delivers, 0 at its end
NextMatch(rows, filter, pos) ==
  LET S == { n \in (pos + 1)..Len(rows) : Matches(rows[n], filter) }
  IN IF S = {} THEN 0 ELSE CHOOSE n \in S : \A m \in S : n <= m

nextRow == NextMatch(store[table.sourceTable], table.filter, scanPos)

\* the row callback of db.each: the rowPromise's executor runs at once and
\* calls #mapFieldsToValues(newTableName, fields, variables, row)
RowCallback ==
  /\ pc = "eachRow"
  /\ scan = "running"
  /\ table.sourceTable \in exists
  /\ nextRow # 0
  /\ scanPos' = nextRow
  /\ rowTasks' = Append(rowTasks, NewTask(nextRow, variables))
  /\ UNCHANGED << tables, ti, pc, error, uncaught, vi, acc, variables, i, scan,
                  store, exists, created, varCalls, rowVarCalls, inserted,
                  expected, failedAt, failures >>
  /\ UNCHANGED << thrown, answer, returned, rowValues >>

\* the completion callback of db.each without error: Promise.all(rowPromises)
ScanComplete ==
  /\ pc = "eachRow"
  /\ scan = "running"
  /\ table.sourceTable \in exists
  /\ nextRow = 0
  /\ scan' = "complete"
  /\ UNCHANGED << tables, ti, pc, error, uncaught, vi, acc, variables, i,
                  rowTasks, scanPos, store, exists, created, varCalls,
                  rowVarCalls, inserted, expected, failedAt, failures >>
  /\ UNCHANGED << thrown, answer, returned, rowValues >>

\* db.each hands an error to a callback (the source table is missing, or the
\* statement fails to prepare): building the message reads the undeclared
\* `tableName`, the ReferenceError leaves the callback and reject() is not called
ScanError ==
  /\ pc = "eachRow"
  /\ scan = "running"
  /\ scanPos = 0
  /\ scan' = "error"
  /\ uncaught' = TRUE
  /\ Lost
  /\ UNCHANGED << tables, ti, vi, acc, variables, i, rowTasks, scanPos, store,
                  exists, created, varCalls, rowVarCalls, inserted, expected >>
  /\ UNCHANGED << thrown, answer, returned, rowValues >>

\* resolve() called from the completion callback without Promise.all
RowPromisesNotAwaited(tasks) == TRUE

\* a rowPromise that settles in a finally block, failed or not
RowPromisesSettled(tasks) ==
  \A t \in 1..Len(tasks) : tasks[t].phase \in {"done", "rejected", "insertFailed"}

\* resolve() reached only through a rowPromise: a scan without rows hangs
RowPromisesSomeResolved(tasks) ==
  Len(tasks) > 0 /\ \A t \in 1..Len(tasks) : tasks[t].phase = "done"

\* Promise.all(rowPromises) fulfils: every rowPromise called its resolve()
RowPromisesResolved(tasks) ==
  \A t \in 1..Len(tasks) : tasks[t].phase = "done"

\* Promise.all(rowPromises).then(() => resolve())
EachRowResolve ==
  /\ pc = "eachRow"
  /\ scan = "complete"
  /\ RowPromisesResolved(rowTasks)
  /\ NextTable
  /\ UNCHANGED << tables, uncaught, vi, acc, variables, i, store, exists,
                  created, varCalls, rowVarCalls, inserted, expected >>
  /\ UNCHANGED << thrown, answer, returned, rowValues >>

(* ------------------------------------------------------------------ Next *)
Next ==
  \/ CreateTable
  \/ ResolveVar
  \/ InsertExampleData
  \/ ResolveRowVar
  \/ ForCountRow
  \/ \E t \in 1..Len(rowTasks) : \E f \in 1..NFW : GenComplete(t, f)
  \/ \E t \in 1..Len(rowTasks) : InsertComplete(t)
  \/ RowCallback
  \/ ScanComplete
  \/ ScanError
  \/ EachRowResolve

Spec == Init /\ [][Next]_vars

\* generate() called with a list whose generators of field b are referential
LookupInit ==
  /\ \E l \in TableLists : tables \in RefLists(l)
  /\ ti = 1
  /\ pc = "createTable"
  /\ error = NoError
  /\ uncaught = FALSE
  /\ vi = 1
  /\ acc = Empty
  /\ variables = NoSeen
  /\ i = 0
  /\ rowTasks = << >>
  /\ scanPos = 0
  /\ scan = "idle"
  /\ store = [n \in Names \cup {Prior} |-> IF n = Prior THEN PriorRows ELSE << >>]
  /\ exists = {Prior}
  /\ created = [j \in Idx |-> FALSE]
  /\ varCalls = [j \in Idx |-> [k \in Keys |-> 0]]
  /\ rowVarCalls = [j \in Idx |-> [k \in Keys |-> 0]]
  /\ inserted = [j \in Idx |-> 0]
  /\ expected = [j \in Idx |-> 0]
  /\ failedAt = 0
  /\ failures = 0
  /\ thrown = NoThrow
  /\ answer = NoAnswer
  /\ returned = [f \in 1..NFW |-> NotReturned]
  /\ rowValues = << >>

LookupSpec == LookupInit /\ [][Next]_vars

(* ---------------------------------------------------- a table of versions *)
VersionInit ==
  /\ tables \in VersionLists
  /\ ti = 1
  /\ pc = "createTable"
  /\ error = NoError
  /\ uncaught = FALSE
  /\ vi = 1
  /\ acc = Empty
  /\ variables = NoSeen
  /\ i = 0
  /\ rowTasks = << >>
  /\ scanPos = 0
  /\ scan = "idle"
  /\ store = [n \in Names \cup {Prior} |-> IF n = Prior THEN PriorRows ELSE << >>]
  /\ exists = {Prior}
  /\ created = [j \in Idx |-> FALSE]
  /\ varCalls = [j \in Idx |-> [k \in Keys |-> 0]]
  /\ rowVarCalls = [j \in Idx |-> [k \in Keys |-> 0]]
  /\ inserted = [j \in Idx |-> 0]
  /\ expected = [j \in Idx |-> 0]
  /\ failedAt = 0
  /\ failures = 0
  /\ thrown = NoThrow
  /\ answer = NoAnswer
  /\ returned = [f \in 1..NFW |-> NotReturned]
  /\ rowValues = << >>

\* the steps of generate() on count-mode tables
CountNext ==
  \/ CreateTable
  \/ ResolveVar
  \/ InsertExampleData
  \/ ResolveRowVar
  \/ ForCountRow
  \/ \E t \in 1..Len(rowTasks) : \E f \in 1..NFW : GenComplete(t, f)
  \/ \E t \in 1..Len(rowTasks) : InsertComplete(t)

VersionSpec == VersionInit /\ [][CountNext]_vars

(* ------------------------------------------- one row of returned values *)
ValueInit ==
  /\ tables = << >>
  /\ ti = 1
  /\ pc = "idle"
  /\ error = NoError
  /\ uncaught = FALSE
  /\ vi = 1
  /\ acc = Empty
  /\ variables = NoSeen
  /\ i = 0
  /\ rowTasks = << >>
  /\ scanPos = 0
  /\ scan = "idle"
  /\ store = [n \in Names \cup {Prior} |-> IF n = Prior THEN PriorRows ELSE << >>]
  /\ exists = {Prior}
  /\ created = [j \in Idx |-> FALSE]
  /\ varCalls = [j \in Idx |-> [k \in Keys |-> 0]]
  /\ rowVarCalls = [j \in Idx |-> [k \in Keys |-> 0]]
  /\ inserted = [j \in Idx |-> 0]
  /\ expected = [j \in Idx |-> 0]
  /\ failedAt = 0
  /\ failures = 0
  /\ thrown = NoThrow
  /\ answer = NoAnswer
  /\ returned = [f \in 1..NFW |-> NotReturned]
  /\ rowValues = << >>

\* `await field.generator(variables, rowData)` of field f returns v
GenReturn(f, v) ==
  /\ Fields[fieldsWithName[f]].gen
  /\ returned[f] = NotReturned
  /\ returned' = [returned EXCEPT ![f] = v]
  /\ UNCHANGED << tables, ti, pc, error, uncaught, vi, acc, variables, i,
                  rowTasks, scanPos, scan, store, exists, created, varCalls,
                  rowVarCalls, inserted, expected, failedAt, failures, thrown,
                  answer, rowValues >>

\* Promise.all of #mapFieldsToValues fulfils with the array of literals
MapFields ==
  /\ rowValues = << >>
  /\ \A f \in 1..NFW : Fields[fieldsWithName[f]].gen => returned[f] # NotReturned
  /\ rowValues' = [f \in 1..NFW |->
                     IF Fields[fieldsWithName[f]].gen
                       THEN TemplateLiteral(returned[f])
                       ELSE NullLiteral]
  /\ UNCHANGED << tables, ti, pc, error, uncaught, vi, acc, variables, i,
                  rowTasks, scanPos, scan, store, exists, created, varCalls,
                  rowVarCalls, inserted, expected, failedAt, failures, thrown,
                  answer, returned >>

ValueNext ==
  \/ \E f \in 1..NFW : \E v \in JsValues : GenReturn(f, v)
  \/ MapFields

ValueSpec == ValueInit /\ [][ValueNext]_vars

(* ------------------------------------------- the lookup methods called *)
\* the relations a connection may hold when a lookup method is called on it
\* without generate(): rows of earlier runs, column a in 1..MaxRows
Relations ==
  UNION { [1..n -> { [by |-> 0, k |-> 0, src |-> 0, cols |-> columns,
                      vals |-> << NullLit, Quoted(a), Quoted(0) >>] :
                     a \in 1..MaxRows }] : n \in 0..MaxRows }

Orders == {"", "RANDOM()"}

QueryInit ==
  /\ tables = << >>
  /\ ti = 1
  /\ pc = "idle"
  /\ error = NoError
  /\ uncaught = FALSE
  /\ vi = 1
  /\ acc = Empty
  /\ variables = NoSeen
  /\ i = 0
  /\ rowTasks = << >>
  /\ scanPos = 0
  /\ scan = "idle"
  /\ exists \in { S \cup {Prior} : S \in SUBSET Names }
  /\ \E r \in Relations :
       store = [n \in Names \cup {Prior} |->
                  IF n = Prior THEN PriorRows
                  ELSE IF n = "t1" /\ n \in exists THEN r ELSE << >>]
  /\ created = [j \in Idx |-> FALSE]
  /\ varCalls = [j \in Idx |-> [k \in Keys |-> 0]]
  /\ rowVarCalls = [j \in Idx |-> [k \in Keys |-> 0]]
  /\ inserted = [j \in Idx |-> 0]
  /\ expected = [j \in Idx |-> 0]
  /\ failedAt = 0
  /\ failures = 0
  /\ thrown = NoThrow
  /\ answer = NoAnswer
  /\ returned = [f \in 1..NFW |-> NotReturned]
  /\ rowValues = << >>

\* db.getRowFromTable(tableName, filter, order) called and settled
GetRow(tableName, filter, order) ==
  /\ \E out \in getRowFromTable(tableName, filter, order) :
       answer' = [asked |-> TRUE, tableName |-> tableName, filter |-> filter,
                  order |-> order, out |-> out]
  /\ UNCHANGED << tables, ti, pc, error, uncaught, vi, acc, variables, i,
                  rowTasks, scanPos, scan, store, exists, created, varCalls,
                  rowVarCalls, inserted, expected, failedAt, failures, thrown,
                  returned, rowValues >>

\* db.getRandomRowFromTable(tableName, filter) called and settled
GetRandomRow(tableName, filter) ==
  /\ \E out \in getRandomRowFromTable(tableName, filter) :
       answer' = [asked |-> TRUE, tableName |-> tableName, filter |-> filter,
                  order |-> "RANDOM()", out |-> out]
  /\ UNCHANGED << tables, ti, pc, error, uncaught, vi, acc, variables, i,
                  rowTasks, scanPos, scan, store, exists, created, varCalls,
                  rowVarCalls, inserted, expected, failedAt, failures, thrown,
                  returned, rowValues >>

QueryNext ==
  \/ \E T \in Names \cup {Prior} : \E filter \in Filters : \E order \in Orders :
       GetRow(T, filter, order)
  \/ \E T \in Names \cup {Prior} : \E filter \in Filters :
       GetRandomRow(T, filter)

QuerySpec == QueryInit /\ [][QueryNext]_vars

\* generate() called with a list whose tables declare vars and rowVars
FairInit == Init /\ tables[1].vars = SomeVars

\* every producer, generator and query eventually returns, and the event loop
\* runs every callback that is ready
FairSpec == FairInit /\ [][Next]_vars /\ WF_vars(Next)


(* ================================================================ claims *)
\* the function-valued keys of a definition map
FnKeys(defs) == { defs[j].key : j \in { m \in DOMAIN defs : defs[m].fn } }

\* the rows table j of the list is to receive
RowsDue(j) == IF tables[j].mode = "count" THEN tables[j].rows ELSE expected[j]

\* the rows table j of the list has committed, in commit order
NewRows(j) == SelectSeq(store[tables[j].name], LAMBDA r : r.by = j)

\* something was issued for table j: schema creation, a producer, a generator
\* or an insert
Touched(j) ==
  \/ created[j]
  \/ \E k \in Keys : varCalls[j][k] > 0 \/ rowVarCalls[j][k] > 0
  \/ inserted[j] > 0
  \/ ti = j /\ rowTasks # << >>

\* a row of table j was started or table j is over
RowActivity(j) ==
  \/ ti > j
  \/ ti = j /\ (rowTasks # << >> \/ pc \in {"rowVars", "row", "eachRow"})
  \/ \E k \in Keys : rowVarCalls[j][k] > 0
  \/ inserted[j] > 0

\* C1: tables are processed in list order with a barrier: nothing is issued for
\* table j+1 before every row of table j is inserted, in count and mirror mode
C1_TableBarrier ==
  \A j \in 1..(Len(tables) - 1) :
    Touched(j + 1) => inserted[j] = RowsDue(j) /\ Len(NewRows(j)) = RowsDue(j)

C1_Witness ==
  /\ Len(tables) = 2
  /\ tables[1].mode = "mirror"
  /\ inserted[1] = 2
  /\ created[2]

\* C2: a count-mode table with rows = N gets its inserts one per iteration in
\* index order, never more than N, and exactly N once the table is over
C2_CountRows ==
  \A j \in DOMAIN tables :
    tables[j].mode = "count" =>
      /\ Len(NewRows(j)) = inserted[j]
      /\ inserted[j] <= tables[j].rows
      /\ \A n \in 1..Len(NewRows(j)) : NewRows(j)[n].k = n
      /\ (ti > j => inserted[j] = tables[j].rows)

C2_Witness ==
  /\ pc = "resolved"
  /\ failures = 0
  /\ tables[1].mode = "count"
  /\ tables[1].rows = 2
  /\ Len(NewRows(1)) = 2

\* C3: a mirror-mode table that is over without failure has as many new rows as
\* the source table had rows matching the filter when the scan was issued, all
\* of them without filter, possibly none
C3_MirrorRows ==
  \A j \in DOMAIN tables :
    tables[j].mode = "mirror" =>
      /\ Len(NewRows(j)) = inserted[j]
      /\ inserted[j] <= expected[j]
      /\ (ti > j => inserted[j] = expected[j])

C3_Witness ==
  /\ ti > 1
  /\ failures = 0
  /\ tables[1].mode = "mirror"
  /\ tables[1].filter = "a > 1"
  /\ expected[1] = 1
  /\ Len(store[tables[1].sourceTable]) = 2
  /\ inserted[1] = 1

\* C4: rows are generated one at a time in both modes: the generators of a
\* row are invoked only after the insert of the previous row has completed
C4_OneRowAtATime ==
  \A t \in 2..Len(rowTasks) : rowTasks[t - 1].phase = "done"

\* C5: when a step of a run has failed and the run has come to rest,
\* generate() has rejected
C5_FailureRejects ==
  (failures > 0 /\ ~ENABLED Next) => pc = "rejected"

\* C6: after a failure while table i is processed, no schema creation and no
\* insert is issued for a table after i
C6_NoLaterTables ==
  failedAt # 0 =>
    /\ ti = failedAt
    /\ \A j \in (failedAt + 1)..MaxTables : ~created[j] /\ inserted[j] = 0

C6_Witness ==
  /\ failedAt = 1
  /\ Len(tables) = 2
  /\ tables[1].mode = "mirror"
  /\ inserted[1] > 0
  /\ ~ENABLED Next


\* C7: in a count-mode table, when a generator throws while row k is generated,
\* generate() has rejected with an error naming the table and the field, k-1
\* rows of the table are inserted and no later iteration has run
C7_CountFieldFailure ==
  \A t \in 1..Len(rowTasks) :
    (tables[ti].mode = "count" /\ rowTasks[t].failed # 0) =>
      /\ pc = "rejected"
      /\ error = [kind |-> "field", table |-> tables[ti].name,
                  field |-> Fields[fieldsWithName[rowTasks[t].failed]].name]
      /\ inserted[ti] = t - 1
      /\ Len(NewRows(ti)) = t - 1
      /\ Len(rowTasks) = t
      /\ \A k \in Keys : rowVarCalls[ti][k] <= t

C7_Witness ==
  /\ ti \in DOMAIN tables
  /\ tables[ti].mode = "count"
  /\ tables[ti].rows = 2
  /\ Len(rowTasks) = 2
  /\ rowTasks[2].failed = 3
  /\ \A f \in 1..NFW : rowTasks[2].gens[f] # "running"

\* C8: in both modes the insert of a row is issued only when every generator
\* of the row has returned; a row with a failed generator is never inserted
C8_RowAtomicity ==
  /\ \A t \in 1..Len(rowTasks) :
       rowTasks[t].phase \in {"inserting", "done", "insertFailed"} =>
         \A f \in 1..NFW : rowTasks[t].gens[f] \in {"ok", "none"}
  /\ \A t \in 1..Len(rowTasks) :
       (\E f \in 1..NFW : rowTasks[t].gens[f] = "failed") =>
         \A n \in 1..Len(NewRows(ti)) : NewRows(ti)[n].k # t

C8_Witness ==
  /\ ti \in DOMAIN tables
  /\ tables[ti].mode = "mirror"
  /\ Len(rowTasks) = 2
  /\ rowTasks[1].gens[2] = "ok"
  /\ rowTasks[1].gens[3] = "failed"
  /\ rowTasks[2].phase = "done"

\* C9: each producer of a table's vars is invoked once, before the first row,
\* for any number of rows and in both modes
C9_VarsOnce ==
  \A j \in DOMAIN tables :
    \A k \in FnKeys(tables[j].vars) :
      /\ varCalls[j][k] <= 1
      /\ (RowActivity(j) => varCalls[j][k] = 1)

C9_Witness ==
  /\ pc = "resolved"
  /\ Len(tables) = 2
  /\ tables[1].vars = SomeVars
  /\ tables[1].mode = "count" /\ tables[1].rows = 0
  /\ tables[2].mode = "mirror" /\ inserted[2] = 2
  /\ varCalls[1]["x"] = 1 /\ varCalls[2]["y"] = 1

\* C10: in count mode each rowVars producer is invoked once per row, before the
\* generators of that row, and a generator of row k reads in variables.row the
\* values resolved for row k
C10_RowVarsPerRow ==
  \A j \in DOMAIN tables :
    tables[j].mode = "count" =>
      \A k \in FnKeys(tables[j].rowVars) :
        /\ rowVarCalls[j][k] <= tables[j].rows
        /\ (ti > j => rowVarCalls[j][k] = tables[j].rows)
        /\ (ti = j =>
              /\ rowVarCalls[j][k] \in {Len(rowTasks), Len(rowTasks) + 1}
              /\ \A t \in 1..Len(rowTasks) :
                   /\ rowTasks[t].rowAt.hasRow
                   /\ DOMAIN rowTasks[t].rowAt.row = FnKeys(tables[j].rowVars)
                   /\ rowTasks[t].rowAt.row[k] = t
                   /\ \A f \in 1..NFW :
                        rowTasks[t].gens[f] = "ok" =>
                          /\ rowTasks[t].seen[f].hasRow
                          /\ rowTasks[t].seen[f].row = rowTasks[t].rowAt.row)

C10_Witness ==
  /\ ti \in DOMAIN tables
  /\ tables[ti].mode = "count"
  /\ tables[ti].rowVars = SomeVars
  /\ Len(rowTasks) = 2
  /\ rowTasks[1].phase = "done"
  /\ rowTasks[2].gens[2] = "ok" /\ rowTasks[2].gens[3] = "ok"
  /\ rowTasks[2].seen[3].row["x"] = 2
  /\ rowTasks[1].seen[3].row["x"] = 1

\* C11: in mirror mode the rowVars producers are invoked once for every source
\* row the scan delivers, and the generators of the row derived from it read
\* the resolved values in variables.row
C11_MirrorRowVars ==
  \A j \in DOMAIN tables :
    (tables[j].mode = "mirror" /\ ti = j) =>
      \A k \in FnKeys(tables[j].rowVars) :
        \A t \in 1..Len(rowTasks) :
          /\ rowVarCalls[j][k] >= t
          /\ rowTasks[t].rowAt.hasRow
          /\ k \in DOMAIN rowTasks[t].rowAt.row

\* C12: a row that getRandomRowFromTable(T, filter) resolved for a generator is
\* a row of T, was committed in T when the generator made the call, and
\* satisfies the filter
C12_LookupCommitted ==
  \A t \in 1..Len(rowTasks) :
    rowTasks[t].look.kind = "row" =>
      /\ rowTasks[t].look.rel = tables[ti].ref
      /\ rowTasks[t].look.id \in 1..rowTasks[t].refLen
      /\ Matches(store[tables[ti].ref][rowTasks[t].look.id], tables[ti].refFilter)

\* C13: every inserted row lists the named fields of the TableSpec in their
\* order, without the nameless constraint entry, and as many values: NULL for
\* the field without generator, and at the place of each generated field the
\* value its own generator returned, in whatever order the generators returned
C13_ColumnsAndValues ==
  \A j \in DOMAIN tables :
    \A n \in 1..Len(NewRows(j)) :
      LET r == NewRows(j)[n]
          x == IF tables[j].mode = "count" /\ "x" \in FnKeys(tables[j].rowVars)
                 THEN r.k ELSE 0
      IN /\ r.cols = << "id", "a", "b" >>
         /\ Len(r.vals) = Len(r.cols)
         /\ r.vals = << NullLit, Quoted(r.k), Quoted(x) >>

C13_Witness ==
  /\ ti \in DOMAIN tables
  /\ tables[ti].mode = "count"
  /\ tables[ti].rowVars = SomeVars
  /\ Len(NewRows(ti)) = 1
  /\ Len(rowTasks) = 2
  /\ rowTasks[2].gens = << "none", "running", "ok" >>
  /\ rowTasks[2].vals = << NullLit, NullLit, Quoted(2) >>

\* C14: the resolved variables of a table have exactly the keys of its
\* definition map, function-valued or not
C14_AllKeysResolved ==
  (ti \in DOMAIN tables /\ rowTasks # << >>) =>
    DOMAIN variables.tbl = { tables[ti].vars[m].key : m \in DOMAIN tables[ti].vars }

\* C15: when a producer has thrown, generate() has rejected with an error that
\* names the variable of that producer
C15_ProducerFailureNamed ==
  thrown # NoThrow =>
    /\ pc = "rejected"
    /\ error.kind = "variable"
    /\ error.field = thrown.key

\* C16: the rows of a mirror-mode table are committed in the order in which
\* the scan delivered their source rows
C16_MirrorScanOrder ==
  \A j \in DOMAIN tables :
    tables[j].mode = "mirror" =>
      \A n, m \in 1..Len(NewRows(j)) :
        n < m => NewRows(j)[n].src < NewRows(j)[m].src

\* C17: no step of a run, failed or not, removes or changes a committed row:
\* the rows a relation held before the step are a prefix of its rows after it
C17_NoRollback ==
  [][\A n \in DOMAIN store :
       /\ Len(store'[n]) >= Len(store[n])
       /\ SubSeq(store'[n], 1, Len(store[n])) = store[n]]_vars

C17_Witness ==
  /\ pc = "rejected"
  /\ Len(tables) = 2
  /\ failedAt = 2
  /\ tables[1].name = "t1" /\ tables[2].name = "t2"
  /\ Len(store["t1"]) = 1
  /\ Len(store["t2"]) = 1
  /\ store[Prior] = PriorRows

\* C18: when the scan of a mirror-mode table finds no source table, generate()
\* has rejected with a lookup error and the mirror table got no row
C18_MissingSourceRejects ==
  \A j \in DOMAIN tables :
    (ti = j /\ tables[j].mode = "mirror" /\ tables[j].sourceTable \notin exists
       /\ scan = "error") =>
      /\ pc = "rejected"
      /\ error.kind = "query"
      /\ inserted[j] = 0

\* C20: creating a relation that exists keeps its rows: the rows an earlier
\* table of the same name committed are all there, before the rows of the
\* later one
C20_CreateIdempotent ==
  \A j \in DOMAIN tables :
    \A h \in 1..(j - 1) :
      (tables[h].name = tables[j].name /\ created[j]) =>
        /\ Len(NewRows(h)) = inserted[h]
        /\ Len(store[tables[j].name]) >= inserted[h] + inserted[j]
        /\ \A n, m \in 1..Len(store[tables[j].name]) :
             (store[tables[j].name][n].by = h /\ store[tables[j].name][m].by = j)
               => n < m

C20_Witness ==
  /\ pc = "resolved"
  /\ Len(tables) = 2
  /\ tables[1].name = tables[2].name
  /\ tables[1].mode = "count" /\ tables[2].mode = "count"
  /\ Len(store[tables[1].name]) = 2
  /\ store[tables[1].name][1].by = 1
  /\ store[tables[1].name][2].by = 2

\* C19: when every call eventually returns, a run in which no producer, no
\* generator and no query fails eventually resolves, and then every table of
\* the list is created and holds all of its rows: N in count mode, one per
\* matching source row in mirror mode
C19_EventuallyPopulated ==
  <>(\/ failures > 0
     \/ /\ pc = "resolved"
        /\ \A j \in DOMAIN tables :
             /\ created[j]
             /\ tables[j].name \in exists
             /\ Len(NewRows(j)) = RowsDue(j)
             /\ tables[j].mode = "count" => Len(NewRows(j)) = tables[j].rows
             /\ tables[j].mode = "mirror" =>
                  Len(NewRows(j))
                    = Cardinality({ n \in 1..Len(store[tables[j].sourceTable]) :
                        /\ Matches(store[tables[j].sourceTable][n], tables[j].filter)
                        /\ store[tables[j].sourceTable][n].by < j }))

C19_Witness ==
  /\ pc = "resolved"
  /\ failures = 0
  /\ Len(tables) = 2
  /\ tables[1].vars = SomeVars
  /\ tables[1].mode = "count" /\ tables[1].rows = 2
  /\ tables[2].mode = "mirror" /\ tables[2].sourceTable = "t1"
  /\ tables[2].filter = "a > 1"
  /\ Len(NewRows(1)) = 2
  /\ Len(NewRows(2)) = 1

\* a row step of table j was taken: a rowVars producer, a generator, an insert
RowStep(j) ==
  \/ \E k \in Keys : rowVarCalls[j][k] > 0
  \/ inserted[j] > 0
  \/ ti = j /\ rowTasks # << >>

\* generate() rejected by the failure of a schema creation: the only query to
\* fail before a row of the table exists
CreateFailed == pc = "rejected" /\ error.kind = "query" /\ rowTasks = << >>

\* C21: within a table, schema creation completes before any producer, and
\* every producer of vars has returned before the first row step; when schema
\* creation fails, no producer of the table is invoked
C21_StepOrder ==
  \A j \in DOMAIN tables :
    /\ ((\E k \in Keys : varCalls[j][k] > 0) \/ RowStep(j)) =>
         /\ created[j]
         /\ tables[j].name \in exists
         /\ (ti > j \/ pc # "createTable")
    /\ RowStep(j) => \A k \in FnKeys(tables[j].vars) : varCalls[j][k] = 1
    /\ (ti = j /\ CreateFailed) =>
         /\ \A k \in Keys : varCalls[j][k] = 0 /\ rowVarCalls[j][k] = 0
         /\ inserted[j] = 0

C21_Witness ==
  /\ Len(tables) = 2
  /\ ti = 2
  /\ CreateFailed
  /\ tables[2].vars = SomeVars
  /\ tables[2].name = tables[1].name
  /\ varCalls[1]["x"] = 1
  /\ inserted[1] = 1

\* C22: every generator of every row, in both modes, reads the values the
\* producers of vars returned at the start of the table, whatever the row
C22_TableScopeKept ==
  \A t \in 1..Len(rowTasks) :
    LET scope == [k \in FnKeys(tables[ti].vars) |-> 1]
    IN /\ rowTasks[t].rowAt.tbl = scope
       /\ \A f \in 1..NFW :
            rowTasks[t].gens[f] = "ok" => rowTasks[t].seen[f].tbl = scope

C22_Witness ==
  /\ ti \in DOMAIN tables
  /\ tables[ti].vars = SomeVars
  /\ tables[ti].mode = "count"
  /\ Len(rowTasks) = 2
  /\ rowTasks[2].gens = << "none", "ok", "ok" >>
  /\ rowTasks[2].seen[2].tbl = [k \in {"x", "y"} |-> 1]
  /\ rowTasks[2].seen[3].row["x"] = 2

\* C23: in mirror mode the rows handed to the generators are the matching
\* source rows, each once and none skipped, every inserted row comes from one
\* of them, no two from the same, and a table that is over has one inserted
\* row for each matching source row
C23_OneToOne ==
  \A j \in DOMAIN tables :
    tables[j].mode = "mirror" =>
      LET src == tables[j].sourceTable
          due == { n \in 1..Len(store[src]) :
                     Matches(store[src][n], tables[j].filter) /\ store[src][n].by < j }
          new == NewRows(j)
      IN /\ \A n, m \in 1..Len(new) : n # m => new[n].src # new[m].src
         /\ \A n \in 1..Len(new) : new[n].src \in due
         /\ (ti > j => { new[n].src : n \in 1..Len(new) } = due)
         /\ (ti = j =>
               /\ \A t \in 2..Len(rowTasks) : rowTasks[t - 1].src < rowTasks[t].src
               /\ { rowTasks[t].src : t \in 1..Len(rowTasks) }
                    = { n \in due : n <= scanPos }
               /\ \A n \in 1..Len(new) : rowTasks[new[n].k].src = new[n].src)

C23_Witness ==
  /\ Len(tables) = 2
  /\ ti = 2
  /\ tables[1].mode = "mirror"
  /\ tables[1].filter = ""
  /\ Len(NewRows(1)) = 2
  /\ NewRows(1)[1].src = 2
  /\ NewRows(1)[2].src = 1

\* C26: in count mode no step commits a row while a generator of the row
\* being computed is still in flight
C26_StoreStableDuringRow ==
  [][(/\ ti \in DOMAIN tables
      /\ tables[ti].mode = "count"
      /\ \E t \in 1..Len(rowTasks) :
           \E f \in 1..NFW : rowTasks[t].gens[f] = "running")
       => store' = store]_vars

C26_Witness ==
  /\ ti \in DOMAIN tables
  /\ tables[ti].mode = "count"
  /\ Len(rowTasks) = 2
  /\ Len(NewRows(ti)) = 1
  /\ rowTasks[2].gens = << "none", "ok", "running" >>

\* C27: a table without vars and rowVars is generated as any other: no
\* producer is invoked, nothing is thrown by the resolution, and the
\* generators get a variables object with an empty table scope and, in count
\* mode, an empty row scope
C27_EmptyVars ==
  \A j \in DOMAIN tables :
    (tables[j].vars = NoVars /\ tables[j].rowVars = NoVars) =>
      /\ \A k \in Keys : varCalls[j][k] = 0 /\ rowVarCalls[j][k] = 0
      /\ thrown = NoThrow
      /\ (ti = j =>
            \A t \in 1..Len(rowTasks) :
              /\ rowTasks[t].rowAt.tbl = Empty
              /\ (tables[j].mode = "count" =>
                    rowTasks[t].rowAt.hasRow /\ rowTasks[t].rowAt.row = Empty))
      /\ ((ti > j /\ tables[j].mode = "count") => inserted[j] = tables[j].rows)

C27_Witness ==
  /\ pc = "resolved"
  /\ Len(tables) = 1
  /\ tables[1].vars = NoVars /\ tables[1].rowVars = NoVars
  /\ tables[1].mode = "count"
  /\ Len(NewRows(1)) = 2
  /\ NewRows(1)[2].vals[3] = Quoted(0)

\* C24: a lookup on a relation that was not created rejects, a lookup on a
\* relation that exists resolves null when no row matches the filter and a
\* matching row of that relation otherwise
C24_MissingOrEmpty ==
  answer.asked =>
    LET T == answer.tableName
        M == { n \in 1..Len(store[T]) : Matches(store[T][n], answer.filter) }
    IN /\ T \notin exists => answer.out.kind = "rejected"
       /\ (T \in exists /\ M = {}) => answer.out.kind = "null"
       /\ (T \in exists /\ M # {}) =>
            /\ answer.out.kind = "row"
            /\ answer.out.rel = T
            /\ answer.out.id \in M
            /\ answer.order = "" => \A m \in M : answer.out.id <= m

C24_Witness ==
  /\ answer.asked
  /\ answer.tableName = "t2"
  /\ "t2" \notin exists
  /\ "t1" \in exists /\ store["t1"] = << >>
  /\ answer.order = "RANDOM()"
  /\ answer.out.kind = "rejected"

\* what a column of that type holds when value v is stored as it is
AsIs(v, type) ==
  Affinity(IF v.type \in {"null", "undefined"} THEN JsNull ELSE v, type)

\* C28: the column of a generated field holds the value its generator
\* returned, whatever its kind (null and undefined as NULL), and the column of
\* a field without generator holds NULL
C28_ValueAsIs ==
  rowValues # << >> =>
    \A f \in 1..NFW :
      LET type == Fields[fieldsWithName[f]].type
      IN IF Fields[fieldsWithName[f]].gen
           THEN Stored(rowValues[f], type) = AsIs(returned[f], type)
           ELSE Stored(rowValues[f], type) = JsNull

\* the positions of relation n whose column a holds o
RowsOf(n, o) == { m \in 1..Len(store[n]) : store[n][m].vals[2] = Quoted(o) }

\* C25: in a count-mode table of versions, every committed row carries the
\* number of rows committed before it for the same object plus one, so the
\* versions of each object are 1..k without gap or duplicate, k being the
\* number of its rows
C25_VersionsDense ==
  \A j \in DOMAIN tables :
    tables[j].versioned =>
      LET n == tables[j].name
      IN /\ \A m \in 1..Len(store[n]) :
              /\ store[n][m].vals[2][2] \in 1..Len(store[tables[j].ref])
              /\ store[n][m].vals[3]
                   = Quoted(Cardinality({ q \in RowsOf(n, store[n][m].vals[2][2]) :
                                           q < m }) + 1)
         /\ \A o \in 1..Len(store[tables[j].ref]) :
              { store[n][m].vals[3][2] : m \in RowsOf(n, o) }
                = 1..Cardinality(RowsOf(n, o))

C25_Witness ==
  /\ pc = "resolved"
  /\ tables[1].versioned
  /\ Len(store["t1"]) = 3
  /\ store["t1"][1].vals = << NullLit, Quoted(2), Quoted(1) >>
  /\ store["t1"][2].vals = << NullLit, Quoted(1), Quoted(1) >>
  /\ store["t1"][3].vals = << NullLit, Quoted(2), Quoted(2) >>

====
